---- MODULE Spec2Model ----
(***************************************************************************)
(* Model of compare_with_dataset (src/compare_ssim_mse.py), of the         *)
(* normaliser it calls (src/preprocess.py), and of the session kept by the *)
(* /analyze and /api/chat handlers (src/app.py).                           *)
(*                                                                         *)
(* Floating point values are fixed-point integers: similarity scores and   *)
(* medians are counted in units of 1/One (1e-5), errors (MSE) in the same  *)
(* unit.  None is the empty tuple and a present value v is <<v>>.          *)
(* A reference file is named by <<category, index>>.                       *)
(***************************************************************************)
EXTENDS Integers, Sequences, FiniteSets, TLC

\* ------------------------------------------------------------------ bounds
\* Largest number of entries in one category directory.
MaxFiles == 2
\* Largest sample_size a caller passes (the smallest is -1).
MaxSample == 2

\* --------------------------------------------------------------- constants
\* Fixed-point representation of 1.0 (data_range=1.0).
One == 100000
\* The confidence margin 0.02.
Threshold == (2 * One) \div 100
\* categories=("NORMAL", "PNEUMONIA")
Categories == <<"NORMAL", "PNEUMONIA">>

None == <<>>
Some(v) == <<v>>

\* float("inf"): larger than every error a sample can have.
Inf == 10 * One

\* An entry of a category directory: a name without an image extension
\* ("other"), or an eligible file and what reading it leads to:
\* preprocess_image returns None ("undecodable"), ssim raises ValueError
\* ("domain"), or the pair (s, m) is computed ("ok").  SSIM of two images in
\* [0,1] with data_range 1.0 lies strictly above -1 and at most 1; MSE is
\* non-negative.
OutcomeList ==
    << [kind |-> "other",       s |-> 0, m |-> 0],
       [kind |-> "undecodable", s |-> 0, m |-> 0],
       [kind |-> "domain",      s |-> 0, m |-> 0],
       [kind |-> "ok", s |-> -50000, m |-> 40000],
       [kind |-> "ok", s |-> 1996,   m |-> 2000],
       [kind |-> "ok", s |-> 3996,   m |-> 1000] >>

\* The sample_size values a caller passes.
SampleSizes == (-1) .. MaxSample

\* The entries of a directory, as indices into OutcomeList.  Names carry no
\* meaning, so one listing per multiset of contents is kept.
Listings ==
    UNION { { f \in [1 .. n -> 1 .. Len(OutcomeList)] :
                \A i \in 1 .. n : \A j \in 1 .. n : i <= j => f[i] <= f[j] }
            : n \in 0 .. MaxFiles }

\* A category directory: absent, or present with its entries.
Directories ==
    { [isdir |-> FALSE, entries |-> <<>>] }
        \cup { [isdir |-> TRUE, entries |-> l] : l \in Listings }

VARIABLES
    inputOk,          \* preprocess_image(uploaded_image_path) is not None
    sample_size,      \* the sample_size argument
    corpus,           \* category -> directory under BASE_DATA_DIR
    pc,               \* position of the call
    catIdx,           \* index of the category of the for loop (line 40)
    results_summary,  \* dict category -> summary (line 37)
    best_match,       \* running best match (line 38)
    sampled,          \* files of the draw not processed yet (line 53/56)
    ssim_scores,      \* line 54
    mse_scores,       \* line 54
    result,           \* the returned record, None until the call returns
    raised,           \* the exception the call raised, None if none
    touched,          \* history: categories whose directory was looked at
    drawn,            \* history: category -> files drawn, in draw order
    compared,         \* history: category -> files compared, in order
    calls,            \* history: the finished calls of the process
    ncalls,           \* number of calls of compare_with_dataset begun
    HAVE_GEMINI,      \* src/app.py line 24-27
    session,          \* the Flask session of one client (src/app.py)
    uploads,          \* the files in UPLOAD_FOLDER
    lastRequest       \* history: the last request served and the session before

\* The state outside one call of compare_with_dataset.
callVars == << calls, ncalls >>

\* The state of the web application.
appVars == << HAVE_GEMINI, session, uploads, lastRequest >>

vars == << inputOk, sample_size, corpus, pc, catIdx, results_summary,
           best_match, sampled, ssim_scores, mse_scores, result, raised,
           touched, drawn, compared, calls, ncalls, HAVE_GEMINI, session,
           uploads, lastRequest >>

\* ------------------------------------------------------------------ helpers
Min(a, b) == IF a <= b THEN a ELSE b
Abs(x) == IF x < 0 THEN -x ELSE x

\* round(): nearest, ties to even; den > 0.
RoundDiv(num, den) ==
    LET q == num \div den
        r == num % den
    IN  IF 2 * r < den THEN q
        ELSE IF 2 * r > den THEN q + 1
        ELSE IF q % 2 = 0 THEN q ELSE q + 1

\* A draw with replacement: random.choices instead of random.sample.
Draws_WithReplacement(n, k) == [1 .. k -> 1 .. n]

\* Sequences of k distinct elements of 1..n: random.sample(files, k).
Draws(n, k) ==
    { f \in [1 .. k -> 1 .. n] :
        \A i \in 1 .. k : \A j \in 1 .. k : i # j => f[i] # f[j] }

\* f.lower().endswith((".jpg", ".jpeg", ".png"))
IsImage(e) == OutcomeList[e].kind # "other"

\* The eligible files of a category directory (lines 46-47).
FilesOf(c) == SelectSeq(corpus[c].entries, IsImage)

\* What reading file <<c, i>> leads to.
OutcomeOf(path) == OutcomeList[FilesOf(path[1])[path[2]]]

\* preprocess_image: None on any failure, otherwise an image.
PreprocessFails(path) == OutcomeOf(path).kind = "undecodable"

\* sorted(xs): insertion of each element at its place.
RECURSIVE Insert(_, _)
Insert(x, xs) ==
    IF xs = <<>> THEN <<x>>
    ELSE IF x <= Head(xs) THEN <<x>> \o xs
    ELSE <<Head(xs)>> \o Insert(x, Tail(xs))

RECURSIVE Sorted(_)
Sorted(xs) == IF xs = <<>> THEN <<>> ELSE Insert(Head(xs), Sorted(Tail(xs)))

\* np.median of a non-empty list: the middle element, or the mean of the two
\* middle elements.
Median(xs) ==
    LET srt == Sorted(xs)
        n == Len(xs)
    IN  IF n % 2 = 1 THEN srt[(n + 1) \div 2]
        ELSE (srt[n \div 2] + srt[n \div 2 + 1]) \div 2

\* float(np.median(xs)) if xs else None
MedianOrNone(xs) == IF xs = <<>> THEN None ELSE Some(Median(xs))

EmptySummary == [avg_ssim |-> None, avg_mse |-> None, samples_compared |-> 0]

\* results_summary.get(c, {}).get(key)
SummaryGet(rs, c, key) ==
    IF c \in DOMAIN rs THEN rs[c][key] ELSE None

\* x or 0.0
OrZero(x) == IF x = None THEN 0 ELSE x[1]

\* results_summary.get(c, {}).get("samples_compared", 0)
SamplesGet(rs, c) ==
    IF c \in DOMAIN rs THEN rs[c].samples_compared ELSE 0

\* The running maximum starting at 0 instead of -1.0.
InitBestMatch_Zero == [category |-> None, ssim |-> 0, mse |-> Inf, path |-> None]

\* best_match = {"category": None, "ssim": -1.0, "mse": float("inf"), "path": None}
InitBestMatch == [category |-> None, ssim |-> -One, mse |-> Inf, path |-> None]

\* -------------------------------------------------------------------- Init
Init ==
    /\ inputOk \in BOOLEAN
    /\ sample_size \in SampleSizes
    /\ corpus \in [{"NORMAL", "PNEUMONIA"} -> Directories]
    /\ pc = "call"
    /\ catIdx = 1
    /\ results_summary = << >>
    /\ best_match = InitBestMatch
    /\ sampled = <<>>
    /\ ssim_scores = <<>>
    /\ mse_scores = <<>>
    /\ result = None
    /\ raised = None
    /\ touched = {}
    /\ drawn = [c \in {"NORMAL", "PNEUMONIA"} |-> <<>>]
    /\ compared = [c \in {"NORMAL", "PNEUMONIA"} |-> <<>>]
    /\ calls = {}
    /\ ncalls = 1
    /\ HAVE_GEMINI = TRUE
    /\ session = << >>
    /\ uploads = {}
    /\ lastRequest = [kind |-> "none"]


\* ----------------------------------------------------------------- actions
Category == Categories[catIdx]

\* for category in categories: the next category, or the code after the loop.
NextCategory ==
    /\ catIdx' = catIdx + 1
    /\ pc' = IF catIdx = Len(Categories) THEN "decide" ELSE "category"

\* The None check of line 31 missing: the call goes on to the categories.
InputFails_Unchecked ==
    /\ pc = "call"
    /\ ~inputOk
    /\ pc' = "category"
    /\ UNCHANGED << inputOk, sample_size, corpus, catIdx, results_summary,
                    best_match, sampled, ssim_scores, mse_scores, result,
                    raised, touched, drawn, compared >>
    /\ UNCHANGED << callVars, appVars >>

\* Lines 30-32: the input does not normalise; the call raises ValueError.
InputFails ==
    /\ pc = "call"
    /\ ~inputOk
    /\ pc' = "raised"
    /\ raised' = Some("ValueError")
    /\ UNCHANGED << inputOk, sample_size, corpus, catIdx, results_summary,
                    best_match, sampled, ssim_scores, mse_scores, result,
                    touched, drawn, compared >>
    /\ UNCHANGED << callVars, appVars >>

\* best_match kept in a place that outlives the call (a module-level dict or
\* a mutable default argument) instead of being created at line 38.
InputNormalises_KeepsBest ==
    /\ pc = "call"
    /\ inputOk
    /\ pc' = "category"
    /\ results_summary' = << >>
    /\ UNCHANGED << inputOk, sample_size, corpus, catIdx, sampled,
                    ssim_scores, mse_scores, result, raised, touched, drawn,
                    compared, best_match >>
    /\ UNCHANGED << callVars, appVars >>

\* Lines 30-38: the input normalises; the loop over the categories begins.
InputNormalises ==
    /\ pc = "call"
    /\ inputOk
    /\ pc' = "category"
    /\ results_summary' = << >>
    /\ best_match' = InitBestMatch
    /\ UNCHANGED << inputOk, sample_size, corpus, catIdx, sampled,
                    ssim_scores, mse_scores, result, raised, touched, drawn,
                    compared >>
    /\ UNCHANGED << callVars, appVars >>

\* Lines 41-44: the category directory is absent.
CategoryAbsent ==
    /\ pc = "category"
    /\ ~corpus[Category].isdir
    /\ results_summary' =
          [c \in DOMAIN results_summary \cup {Category} |->
              IF c = Category THEN EmptySummary ELSE results_summary[c]]
    /\ touched' = touched \cup {Category}
    /\ NextCategory
    /\ UNCHANGED << inputOk, sample_size, corpus, best_match, sampled,
                    ssim_scores, mse_scores, result, raised, drawn, compared >>
    /\ UNCHANGED << callVars, appVars >>

\* Lines 46-50: the directory holds no eligible file.
CategoryEmpty ==
    /\ pc = "category"
    /\ corpus[Category].isdir
    /\ FilesOf(Category) = <<>>
    /\ results_summary' =
          [c \in DOMAIN results_summary \cup {Category} |->
              IF c = Category THEN EmptySummary ELSE results_summary[c]]
    /\ touched' = touched \cup {Category}
    /\ NextCategory
    /\ UNCHANGED << inputOk, sample_size, corpus, best_match, sampled,
                    ssim_scores, mse_scores, result, raised, drawn, compared >>
    /\ UNCHANGED << callVars, appVars >>

\* The size passed to random.sample (line 53).
DrawSize(c) == Min(sample_size, Len(FilesOf(c)))

\* Lines 53-54: random.sample draws DrawSize files without replacement.
DrawSample ==
    /\ pc = "category"
    /\ corpus[Category].isdir
    /\ FilesOf(Category) # <<>>
    /\ DrawSize(Category) >= 0
    /\ \E d \in Draws(Len(FilesOf(Category)), DrawSize(Category)) :
          LET paths == [i \in 1 .. Len(d) |-> <<Category, d[i]>>]
          IN  /\ sampled' = paths
              /\ drawn' = [drawn EXCEPT ![Category] = paths]
    /\ ssim_scores' = <<>>
    /\ mse_scores' = <<>>
    /\ touched' = touched \cup {Category}
    /\ pc' = "loop"
    /\ UNCHANGED << inputOk, sample_size, corpus, catIdx, results_summary,
                    best_match, result, raised, compared >>
    /\ UNCHANGED << callVars, appVars >>

\* Line 53: random.sample raises ValueError for a negative size, and nothing
\* in compare_with_dataset catches it.
DrawSampleRaises ==
    /\ pc = "category"
    /\ corpus[Category].isdir
    /\ FilesOf(Category) # <<>>
    /\ DrawSize(Category) < 0
    /\ touched' = touched \cup {Category}
    /\ pc' = "raised"
    /\ raised' = Some("ValueError")
    /\ UNCHANGED << inputOk, sample_size, corpus, catIdx, results_summary,
                    best_match, sampled, ssim_scores, mse_scores, result,
                    drawn, compared >>
    /\ UNCHANGED << callVars, appVars >>

\* Lines 57-59: the drawn file does not normalise and is skipped.
SkipUndecodable ==
    /\ pc = "loop"
    /\ sampled # <<>>
    /\ PreprocessFails(Head(sampled))
    /\ sampled' = Tail(sampled)
    /\ UNCHANGED << inputOk, sample_size, corpus, pc, catIdx, results_summary,
                    best_match, ssim_scores, mse_scores, result, raised,
                    touched, drawn, compared >>
    /\ UNCHANGED << callVars, appVars >>

\* The except branch falling through to the accumulation of lines 70-71.
SkipDomainError_Counted ==
    /\ pc = "loop"
    /\ sampled # <<>>
    /\ ~PreprocessFails(Head(sampled))
    /\ OutcomeOf(Head(sampled)).kind = "domain"
    /\ sampled' = Tail(sampled)
    /\ ssim_scores' = Append(ssim_scores, OutcomeOf(Head(sampled)).s)
    /\ mse_scores' = Append(mse_scores, OutcomeOf(Head(sampled)).m)
    /\ UNCHANGED << inputOk, sample_size, corpus, pc, catIdx, results_summary,
                    best_match, result, raised, touched, drawn, compared >>
    /\ UNCHANGED << callVars, appVars >>

\* Lines 64-68: ssim raises ValueError and the sample is skipped.
SkipDomainError ==
    /\ pc = "loop"
    /\ sampled # <<>>
    /\ ~PreprocessFails(Head(sampled))
    /\ OutcomeOf(Head(sampled)).kind = "domain"
    /\ sampled' = Tail(sampled)
    /\ UNCHANGED << inputOk, sample_size, corpus, pc, catIdx, results_summary,
                    best_match, ssim_scores, mse_scores, result, raised,
                    touched, drawn, compared >>
    /\ UNCHANGED << callVars, appVars >>

\* The comparison of line 73 with >= instead of >: the last maximum wins.
UpdateBest_LastWins(bm, c, s, m, path) ==
    IF s >= bm.ssim
    THEN [category |-> Some(c), ssim |-> s, mse |-> m, path |-> Some(path)]
    ELSE bm

\* The maximum kept per category: a sample of a new category always wins.
UpdateBest_PerCategory(bm, c, s, m, path) ==
    IF bm.category # Some(c) \/ s > bm.ssim
    THEN [category |-> Some(c), ssim |-> s, mse |-> m, path |-> Some(path)]
    ELSE bm

\* Lines 73-74: the running best match after a sample (s, m) at path.
UpdateBest(bm, c, s, m, path) ==
    IF s > bm.ssim
    THEN [category |-> Some(c), ssim |-> s, mse |-> m, path |-> Some(path)]
    ELSE bm

\* Lines 60-74: the sample is compared, accumulated and may become the best.
CompareSample ==
    /\ pc = "loop"
    /\ sampled # <<>>
    /\ ~PreprocessFails(Head(sampled))
    /\ OutcomeOf(Head(sampled)).kind = "ok"
    /\ LET path == Head(sampled)
           s == OutcomeOf(path).s
           m == OutcomeOf(path).m
       IN  /\ ssim_scores' = Append(ssim_scores, s)
           /\ mse_scores' = Append(mse_scores, m)
           /\ best_match' = UpdateBest(best_match, Category, s, m, path)
           /\ compared' = [compared EXCEPT ![Category] = Append(@, path)]
    /\ sampled' = Tail(sampled)
    /\ UNCHANGED << inputOk, sample_size, corpus, pc, catIdx, results_summary,
                    result, raised, touched, drawn >>
    /\ UNCHANGED << callVars, appVars >>

\* Lines 76-84: the category's summary.
CategorySummary(ss, ms) ==
    [avg_ssim |-> MedianOrNone(ss),
     avg_mse |-> MedianOrNone(ms),
     samples_compared |-> Len(ss)]

\* Lines 76-84: all drawn files are processed; the summary is recorded.
Aggregate ==
    /\ pc = "loop"
    /\ sampled = <<>>
    /\ results_summary' =
          [c \in DOMAIN results_summary \cup {Category} |->
              IF c = Category THEN CategorySummary(ssim_scores, mse_scores)
              ELSE results_summary[c]]
    /\ NextCategory
    /\ UNCHANGED << inputOk, sample_size, corpus, best_match, sampled,
                    ssim_scores, mse_scores, result, raised, touched, drawn,
                    compared >>
    /\ UNCHANGED << callVars, appVars >>

\* The margin test with <= instead of <.
Prediction_Inclusive(a, b) ==
    IF Abs(b - a) <= Threshold THEN "uncertain"
    ELSE IF b > a THEN "pneumonia"
    ELSE "normal"

\* Lines 91-97: the verdict for the medians a (NORMAL) and b (PNEUMONIA).
Prediction(a, b) ==
    IF Abs(b - a) < Threshold THEN "uncertain"
    ELSE IF b > a THEN "pneumonia"
    ELSE "normal"

\* Line 100: the denominator of the shares; the number 1 is One units.
Total(a, b) == IF a + b > 0 THEN a + b ELSE One

\* Lines 101-102, 110, 116: round((x / total) * 100, 2), in hundredths of a
\* percent.
Percent(x, a, b) == RoundDiv(x * 10000, Total(a, b))

\* The margin reported without abs(): round(pneu_score - normal_score, 4).
ConfidenceDiff_Signed(a, b) == RoundDiv((b - a) * 10000, One)

\* Line 120: round(diff, 4), in units of 1e-4.
ConfidenceDiff(a, b) == RoundDiv(Abs(b - a) * 10000, One)

\* Lines 86-122: the returned record.
Record(rs, bm) ==
    LET normal_score == OrZero(SummaryGet(rs, "NORMAL", "avg_ssim"))
        pneu_score == OrZero(SummaryGet(rs, "PNEUMONIA", "avg_ssim"))
    IN  [best_match |-> IF bm.path # None THEN Some(bm) ELSE None,
         summary |->
            [c \in {"NORMAL", "PNEUMONIA"} |->
                [avg_ssim |-> Some(IF c = "NORMAL" THEN normal_score
                                   ELSE pneu_score),
                 avg_mse |-> SummaryGet(rs, c, "avg_mse"),
                 similarity_percent |->
                     Percent(IF c = "NORMAL" THEN normal_score ELSE pneu_score,
                             normal_score, pneu_score),
                 samples_compared |-> SamplesGet(rs, c)]],
         confidence_diff |-> ConfidenceDiff(normal_score, pneu_score),
         prediction |-> Prediction(normal_score, pneu_score)]

\* Lines 86-122: the verdict is taken and the record returned.
Decide ==
    /\ pc = "decide"
    /\ result' = Some(Record(results_summary, best_match))
    /\ pc' = "returned"
    /\ UNCHANGED << inputOk, sample_size, corpus, catIdx, results_summary,
                    best_match, sampled, ssim_scores, mse_scores, raised,
                    touched, drawn, compared >>
    /\ UNCHANGED << callVars, appVars >>

Next ==
    \/ InputFails
    \/ InputNormalises
    \/ CategoryAbsent
    \/ CategoryEmpty
    \/ DrawSample
    \/ DrawSampleRaises
    \/ SkipUndecodable
    \/ SkipDomainError
    \/ CompareSample
    \/ Aggregate
    \/ Decide

Spec == Init /\ [][Next]_vars

\* ------------------------------------------------- a sequence of calls
\* Largest number of calls of compare_with_dataset in one process.
MaxCalls == 3

\* The corpora of the runs with several calls: an absent, an empty and a
\* populated directory, with files of every kind.
CallCorpora ==
    { [NORMAL |-> [isdir |-> FALSE, entries |-> <<>>],
       PNEUMONIA |-> [isdir |-> TRUE, entries |-> <<5, 6>>]],
      [NORMAL |-> [isdir |-> TRUE, entries |-> <<1>>],
       PNEUMONIA |-> [isdir |-> TRUE, entries |-> <<3, 4>>]],
      [NORMAL |-> [isdir |-> TRUE, entries |-> <<2, 6>>],
       PNEUMONIA |-> [isdir |-> TRUE, entries |-> <<5>>]] }

InitCalls ==
    /\ corpus \in CallCorpora
    /\ Init

\* What a finished call was given and what it gave back: the input image,
\* the corpus it read, sample_size, the draw of each category, and the
\* returned record or the exception.
CallRecord ==
    [inputOk |-> inputOk, corpus |-> corpus, sample_size |-> sample_size,
     draw |-> drawn, result |-> result, raised |-> raised]

\* Line 29: the process calls compare_with_dataset again.  The frame of the
\* finished call is gone; every local is assigned before it is read, so the
\* locals keep whatever they held.
NewCall ==
    /\ pc \in {"returned", "raised"}
    /\ ncalls < MaxCalls
    /\ calls' = calls \cup {CallRecord}
    /\ ncalls' = ncalls + 1
    /\ inputOk' \in BOOLEAN
    /\ sample_size' \in SampleSizes
    /\ pc' = "call"
    /\ catIdx' = 1
    /\ result' = None
    /\ raised' = None
    /\ touched' = {}
    /\ drawn' = [c \in {"NORMAL", "PNEUMONIA"} |-> <<>>]
    /\ compared' = [c \in {"NORMAL", "PNEUMONIA"} |-> <<>>]
    /\ UNCHANGED << corpus, results_summary, best_match, sampled,
                    ssim_scores, mse_scores >>
    /\ UNCHANGED appVars

NextCalls ==
    \/ InputFails
    \/ InputNormalises
    \/ CategoryAbsent
    \/ CategoryEmpty
    \/ DrawSample
    \/ DrawSampleRaises
    \/ SkipUndecodable
    \/ SkipDomainError
    \/ CompareSample
    \/ Aggregate
    \/ Decide
    \/ NewCall

SpecCalls == InitCalls /\ [][NextCalls]_vars

\* ------------------------------------------- the web session (src/app.py)
\* conversation_history[-10:]
HistoryLimit == 10

\* The names under which uploads are saved (secure_filename(file.filename)).
UploadNames == {"a.png", "b.jpg"}

\* The "message" field of a chat request, before strip().
ChatMessages == {"", " ", "q1", "q2"}

\* What chat_with_gemini returns: None, an empty text or a text.
ChatResponses == {None, Some(""), Some("r1")}

\* The state of one call of compare_with_dataset.
compareVars == << inputOk, sample_size, corpus, pc, catIdx, results_summary,
                  best_match, sampled, ssim_scores, mse_scores, result,
                  raised, touched, drawn, compared >>

\* message.strip()
Strip(msg) == IF msg = " " THEN "" ELSE msg

\* session.get(key), None when the key is not set.
SessionGet(s, key) == IF key \in DOMAIN s THEN Some(s[key]) ELSE None

\* session.get('conversation_history', [])
HistoryOf(s) ==
    IF "conversation_history" \in DOMAIN s THEN s["conversation_history"]
    ELSE <<>>

\* session[key] = value
SessionSet(s, key, value) ==
    [k \in DOMAIN s \cup {key} |-> IF k = key THEN value ELSE s[k]]

\* The slice taken from the wrong end: conversation_history[:10].
KeepLast_First(h) ==
    IF Len(h) <= HistoryLimit THEN h ELSE SubSeq(h, 1, HistoryLimit)

\* conversation_history[-10:]
KeepLast(h) ==
    IF Len(h) <= HistoryLimit THEN h
    ELSE SubSeq(h, Len(h) - HistoryLimit + 1, Len(h))

InitSession ==
    /\ inputOk = TRUE
    /\ sample_size = 0
    /\ corpus = [c \in {"NORMAL", "PNEUMONIA"} |->
                    [isdir |-> FALSE, entries |-> <<>>]]
    /\ pc = "call"
    /\ catIdx = 1
    /\ results_summary = << >>
    /\ best_match = InitBestMatch
    /\ sampled = <<>>
    /\ ssim_scores = <<>>
    /\ mse_scores = <<>>
    /\ result = None
    /\ raised = None
    /\ touched = {}
    /\ drawn = [c \in {"NORMAL", "PNEUMONIA"} |-> <<>>]
    /\ compared = [c \in {"NORMAL", "PNEUMONIA"} |-> <<>>]
    /\ calls = {}
    /\ ncalls = 1
    /\ HAVE_GEMINI \in BOOLEAN
    /\ session = << >>
    /\ uploads = {}
    /\ lastRequest = [kind |-> "none"]

\* What the history variable lastRequest records of a request.
Request(kind, why, arg, reply) ==
    [kind |-> kind, why |-> why, arg |-> arg, reply |-> reply,
     before |-> session]

\* Lines 80-87 and 173-175: /analyze without a file, without a file name or
\* with an unsupported extension; nothing is saved.
AnalyzeRejected ==
    /\ lastRequest' = Request("analyze_failed", "rejected", "", "")
    /\ UNCHANGED << HAVE_GEMINI, session, uploads >>
    /\ UNCHANGED << compareVars, callVars >>

\* Lines 89-99: the upload is saved, compare_with_dataset raises, and the
\* handler redirects.
AnalyzeCompareFails ==
    /\ \E f \in UploadNames :
          /\ uploads' = uploads \cup {f}
          /\ lastRequest' = Request("analyze_failed", "compare", f, "")
    /\ UNCHANGED << HAVE_GEMINI, session >>
    /\ UNCHANGED << compareVars, callVars >>

\* Lines 89-171: the upload is saved, compare_with_dataset returns, and the
\* session is pointed at the new image with an empty history.
AnalyzeSucceeds ==
    /\ \E f \in UploadNames :
          /\ uploads' = uploads \cup {f}
          /\ session' = SessionSet(SessionSet(session, "current_image_path", f),
                                   "conversation_history", <<>>)
          /\ lastRequest' = Request("analyze_ok", "", f, "")
    /\ UNCHANGED HAVE_GEMINI
    /\ UNCHANGED << compareVars, callVars >>

\* Lines 181-182: Gemini is not available.
ChatUnavailable ==
    /\ ~HAVE_GEMINI
    /\ \E msg \in ChatMessages :
          lastRequest' = Request("chat_failed", "unavailable", msg, "")
    /\ UNCHANGED << HAVE_GEMINI, session, uploads >>
    /\ UNCHANGED << compareVars, callVars >>

\* Lines 184-188: the message is empty after strip().
ChatEmptyMessage ==
    /\ HAVE_GEMINI
    /\ \E msg \in ChatMessages :
          /\ Strip(msg) = ""
          /\ lastRequest' = Request("chat_failed", "empty", msg, "")
    /\ UNCHANGED << HAVE_GEMINI, session, uploads >>
    /\ UNCHANGED << compareVars, callVars >>

\* Line 192: not image_path or not os.path.exists(image_path)
NoImage(s) ==
    IF SessionGet(s, "current_image_path") = None THEN TRUE
    ELSE s["current_image_path"] \notin uploads

\* Lines 190-193: the session has no image to chat about.
ChatNoImage ==
    /\ HAVE_GEMINI
    /\ NoImage(session)
    /\ \E msg \in ChatMessages :
          /\ Strip(msg) # ""
          /\ lastRequest' = Request("chat_failed", "no image", msg, "")
    /\ UNCHANGED << HAVE_GEMINI, session, uploads >>
    /\ UNCHANGED << compareVars, callVars >>

\* Lines 196-202, 209-210: chat_with_gemini returns None or an empty text.
ChatNoResponse ==
    /\ HAVE_GEMINI
    /\ ~NoImage(session)
    /\ \E msg \in ChatMessages : \E resp \in ChatResponses :
          /\ Strip(msg) # ""
          /\ resp = None \/ resp = Some("")
          /\ lastRequest' = Request("chat_failed", "no response", msg, "")
    /\ UNCHANGED << HAVE_GEMINI, session, uploads >>
    /\ UNCHANGED << compareVars, callVars >>

\* Lines 198-200, 212-213: the call of chat_with_gemini raises.
ChatException ==
    /\ HAVE_GEMINI
    /\ ~NoImage(session)
    /\ \E msg \in ChatMessages :
          /\ Strip(msg) # ""
          /\ lastRequest' = Request("chat_failed", "exception", msg, "")
    /\ UNCHANGED << HAVE_GEMINI, session, uploads >>
    /\ UNCHANGED << compareVars, callVars >>

\* Lines 196-208: a response is obtained; the user message and the response
\* are appended and the last 10 messages stored.
ChatSucceeds ==
    /\ HAVE_GEMINI
    /\ ~NoImage(session)
    /\ \E msg \in ChatMessages : \E resp \in ChatResponses :
          /\ Strip(msg) # ""
          /\ resp # None /\ resp # Some("")
          /\ LET conversation_history ==
                    HistoryOf(session)
                        \o << [role |-> "user", content |-> Strip(msg)],
                              [role |-> "assistant", content |-> resp[1]] >>
             IN  session' = SessionSet(session, "conversation_history",
                                       KeepLast(conversation_history))
          /\ lastRequest' = Request("chat_ok", "", Strip(msg), resp[1])
    /\ UNCHANGED << HAVE_GEMINI, uploads >>
    /\ UNCHANGED << compareVars, callVars >>

NextSession ==
    \/ AnalyzeRejected
    \/ AnalyzeCompareFails
    \/ AnalyzeSucceeds
    \/ ChatUnavailable
    \/ ChatEmptyMessage
    \/ ChatNoImage
    \/ ChatNoResponse
    \/ ChatException
    \/ ChatSucceeds

SpecSession == InitSession /\ [][NextSession]_vars

\* ------------------------------------------------------------- properties
Cats == {"NORMAL", "PNEUMONIA"}

Returned == pc = "returned"

\* The returned record (meaningful when Returned).
Rec == result[1]

\* The medians the verdict is taken from, as the record reports them.
MedNormal == Rec.summary["NORMAL"].avg_ssim[1]
MedPneu == Rec.summary["PNEUMONIA"].avg_ssim[1]

\* The category has no eligible file: directory absent, or nothing listed.
NoFiles(c) == ~corpus[c].isdir \/ FilesOf(c) = <<>>

\* The drawn files of c the loop has gone through.
Processed(c) ==
    IF pc = "loop" /\ c = Category
    THEN SubSeq(drawn[c], 1, Len(drawn[c]) - Len(sampled))
    ELSE drawn[c]

IsOk(path) == OutcomeOf(path).kind = "ok"

\* C1: the verdict is "uncertain" exactly when the two medians differ by less
\* than 0.02; otherwise it is "pneumonia" when the PNEUMONIA median is the
\* larger and "normal" when it is the smaller.
C1_VerdictByMargin ==
    Returned =>
        /\ (Rec.prediction = "uncertain") <=> (Abs(MedPneu - MedNormal) < Threshold)
        /\ (Abs(MedPneu - MedNormal) >= Threshold /\ MedPneu > MedNormal)
              => Rec.prediction = "pneumonia"
        /\ (Abs(MedPneu - MedNormal) >= Threshold /\ MedPneu < MedNormal)
              => Rec.prediction = "normal"

\* A run whose medians differ by exactly the margin.
C1_Witness ==
    /\ Returned
    /\ MedPneu - MedNormal = Threshold
    /\ Rec.prediction = "pneumonia"

\* C2: when the input image does not normalise the call raises ValueError,
\* returns no record, and no category directory has been looked at, sampled
\* or compared.
C2_InputFailureRaisesFirst ==
    ~inputOk =>
        /\ pc \in {"call", "raised"}
        /\ pc = "raised" => raised = Some("ValueError")
        /\ result = None
        /\ touched = {}
        /\ \A c \in Cats : drawn[c] = <<>> /\ compared[c] = <<>>
        /\ results_summary = << >>

\* The call has raised on an input that does not normalise, with files in
\* both directories.
C2_Witness ==
    /\ ~inputOk
    /\ pc = "raised"
    /\ \A c \in Cats : FilesOf(c) # <<>>

\* C3: once the input has normalised the call never raises, whatever the
\* sample_size and the corpus.
C3_OnlyInputFailureRaises ==
    inputOk => raised = None

\* C4: when exactly one category has no eligible file and the input
\* normalises, the call does not raise and the record reports that category
\* with samples_compared 0 and both aggregates null.
C4_OneCategoryMissing ==
    \A c \in Cats :
        (inputOk /\ NoFiles(c) /\ \E d \in Cats : ~NoFiles(d)) =>
            /\ raised = None
            /\ Returned =>
                  /\ Rec.summary[c].samples_compared = 0
                  /\ Rec.summary[c].avg_ssim = None
                  /\ Rec.summary[c].avg_mse = None

\* C5: when both categories have no eligible file and the input normalises,
\* the record has samples_compared 0 and null aggregates for both categories,
\* no best match, confidence_diff 0.0 and the "uncertain" verdict.
C5_BothCategoriesEmpty ==
    (Returned /\ \A c \in Cats : NoFiles(c)) =>
        /\ \A c \in Cats :
              /\ Rec.summary[c].samples_compared = 0
              /\ Rec.summary[c].avg_ssim = None
              /\ Rec.summary[c].avg_mse = None
        /\ Rec.best_match = None
        /\ Rec.confidence_diff = 0
        /\ Rec.prediction = "uncertain"

\* C6: the two similarity percentages add up to 100 (within one hundredth)
\* unless both medians are exactly 0, in which case both are 0.0.
C6_PercentagesSumTo100 ==
    Returned =>
        LET pn == Rec.summary["NORMAL"].similarity_percent
            pp == Rec.summary["PNEUMONIA"].similarity_percent
        IN  /\ (MedNormal # 0 \/ MedPneu # 0) => Abs(pn + pp - 10000) <= 1
            /\ (MedNormal = 0 /\ MedPneu = 0) => (pn = 0 /\ pp = 0)

\* C7: the record carries a best match exactly when some reference sample was
\* compared; it is null exactly when every drawn file was skipped or none was
\* drawn.
C7_BestMatchIffCompared ==
    Returned =>
        /\ (Rec.best_match # None)
              <=> (\E c \in Cats : Rec.summary[c].samples_compared > 0)
        /\ (Rec.best_match = None)
              <=> (\A c \in Cats :
                      \A i \in 1 .. Len(drawn[c]) : ~IsOk(drawn[c][i]))

\* A record with a best match of negative similarity, after a category whose
\* drawn files were all skipped.
C7_Witness ==
    /\ Returned
    /\ drawn["NORMAL"] # <<>>
    /\ Rec.summary["NORMAL"].samples_compared = 0
    /\ Rec.best_match # None
    /\ Rec.best_match[1].ssim < 0

\* C8: after every processed sample and at the end of the run the tracked
\* best similarity is at least the similarity of every sample compared so
\* far in either category, and the best match's category, error and path are
\* those of a compared sample that attains it; the record reports it.
C8_BestMatchIsMaximum ==
    /\ \A c \in Cats : \A i \in 1 .. Len(compared[c]) :
          best_match.ssim >= OutcomeOf(compared[c][i]).s
    /\ (\E c \in Cats : compared[c] # <<>>) =>
          \E c \in Cats : \E i \in 1 .. Len(compared[c]) :
              /\ best_match.path = Some(compared[c][i])
              /\ best_match.category = Some(c)
              /\ best_match.ssim = OutcomeOf(compared[c][i]).s
              /\ best_match.mse = OutcomeOf(compared[c][i]).m
    /\ (Returned /\ \E c \in Cats : compared[c] # <<>>) =>
          Rec.best_match = Some(best_match)

\* The best match comes from NORMAL although PNEUMONIA samples were compared
\* after it.
C8_Witness ==
    /\ Returned
    /\ compared["PNEUMONIA"] # <<>>
    /\ Rec.best_match # None
    /\ Rec.best_match[1].category = Some("NORMAL")
    /\ \E i \in 1 .. Len(compared["PNEUMONIA"]) :
          OutcomeOf(compared["PNEUMONIA"][i]).s < Rec.best_match[1].ssim

Max(a, b) == IF a >= b THEN a ELSE b

\* No element occurs twice in the sequence.
NoRepeat(xs) ==
    \A i \in 1 .. Len(xs) : \A j \in 1 .. Len(xs) : i # j => xs[i] # xs[j]

\* C9 (as stated): in every run that returns, samples_compared of a category
\* is at most min(sample_size, number of eligible files), and no file is
\* compared twice.
C9_SampleBound_Original ==
    Returned =>
        \A c \in Cats :
            /\ Rec.summary[c].samples_compared
                  <= Min(sample_size, Len(FilesOf(c)))
            /\ NoRepeat(compared[c])

\* C9 (amended): throughout a run the number of compared files of a category,
\* and samples_compared in the record, are at most
\* max(0, min(sample_size, number of eligible files)), and no file is drawn
\* or compared twice.
C9_SampleBound ==
    \A c \in Cats :
        /\ Len(compared[c]) <= Max(0, Min(sample_size, Len(FilesOf(c))))
        /\ NoRepeat(drawn[c])
        /\ NoRepeat(compared[c])
        /\ Returned =>
              /\ Rec.summary[c].samples_compared = Len(compared[c])
              /\ Rec.summary[c].samples_compared
                    <= Max(0, Min(sample_size, Len(FilesOf(c))))

\* A record whose sample count is capped by sample_size: two files that
\* would both compare, one of them drawn and counted.
C9_Witness ==
    /\ Returned
    /\ sample_size = 1
    /\ Len(FilesOf("NORMAL")) = 2
    /\ \A i \in 1 .. 2 : IsOk(<<"NORMAL", i>>)
    /\ Rec.summary["NORMAL"].samples_compared = 1

\* The scores (s or m) of the compared samples among the paths, in order.
RECURSIVE ScoresOf(_, _)
ScoresOf(paths, key) ==
    IF paths = <<>> THEN <<>>
    ELSE IF IsOk(Head(paths))
         THEN <<OutcomeOf(Head(paths))[key]>> \o ScoresOf(Tail(paths), key)
         ELSE ScoresOf(Tail(paths), key)

\* C10: a drawn file that does not normalise or whose similarity raises a
\* domain error adds no similarity score and no error score, never becomes the
\* best match and is not counted, while every other drawn file is processed
\* and counted: samples_compared is the number of drawn files compared.
C10_SkippedFilesDoNotCount ==
    /\ \A c \in Cats : compared[c] = SelectSeq(Processed(c), IsOk)
    /\ pc = "loop" =>
          /\ ssim_scores = ScoresOf(Processed(Category), "s")
          /\ mse_scores = ScoresOf(Processed(Category), "m")
    /\ best_match.path # None => IsOk(best_match.path[1])
    /\ \A c \in DOMAIN results_summary :
          /\ results_summary[c].samples_compared
                = Len(SelectSeq(drawn[c], IsOk))
          /\ results_summary[c].avg_ssim
                = MedianOrNone(ScoresOf(drawn[c], "s"))
          /\ results_summary[c].avg_mse
                = MedianOrNone(ScoresOf(drawn[c], "m"))
    /\ Returned =>
          \A c \in Cats :
              Rec.summary[c].samples_compared = Len(SelectSeq(drawn[c], IsOk))

\* A record of a run in which one category drew a file that does not
\* normalise and a file that was compared, and the other a file whose
\* similarity raised.
C10_Witness ==
    /\ Returned
    /\ \E c \in Cats :
          /\ \E i \in 1 .. Len(drawn[c]) : OutcomeOf(drawn[c][i]).kind = "undecodable"
          /\ \E i \in 1 .. Len(drawn[c]) : IsOk(drawn[c][i])
          /\ Rec.summary[c].samples_compared = 1
    /\ \E c \in Cats :
          \E i \in 1 .. Len(drawn[c]) : OutcomeOf(drawn[c][i]).kind = "domain"

\* The compared samples of the run in processing order: the categories in
\* the order given, each in the order of its draw.
ComparedInOrder == compared[Categories[1]] \o compared[Categories[2]]

\* C11: among the compared samples that share the highest similarity the
\* best match is the first in processing order; a later sample of equal
\* similarity never replaces it.
C11_TieKeepsFirst ==
    ComparedInOrder # <<>> =>
        \E i \in 1 .. Len(ComparedInOrder) :
            /\ best_match.path = Some(ComparedInOrder[i])
            /\ \A j \in 1 .. Len(ComparedInOrder) :
                  OutcomeOf(ComparedInOrder[j]).s <= OutcomeOf(ComparedInOrder[i]).s
            /\ \A j \in 1 .. (i - 1) :
                  OutcomeOf(ComparedInOrder[j]).s < OutcomeOf(ComparedInOrder[i]).s
            /\ Returned => Rec.best_match[1].path = Some(ComparedInOrder[i])

\* A record whose best match is a NORMAL sample although a PNEUMONIA sample
\* and a later NORMAL sample have the same, highest, similarity.
C11_Witness ==
    /\ Returned
    /\ Len(compared["NORMAL"]) = 2
    /\ Rec.best_match[1].path = Some(compared["NORMAL"][1])
    /\ OutcomeOf(compared["NORMAL"][2]).s = Rec.best_match[1].ssim
    /\ \E i \in 1 .. Len(compared["PNEUMONIA"]) :
          OutcomeOf(compared["PNEUMONIA"][i]).s = Rec.best_match[1].ssim

\* C13: each category's similarity_percent in a returned record lies between
\* 0 and 100 inclusive (in hundredths of a percent: 0 .. 10000).
C13_PercentInRange ==
    Returned =>
        \A c \in Cats :
            /\ Rec.summary[c].similarity_percent >= 0
            /\ Rec.summary[c].similarity_percent <= 10000

\* 0.02 in the unit of confidence_diff (1e-4).
ReportedThreshold == (Threshold * 10000) \div One

\* C14 (as stated): the verdict is "uncertain" exactly when the reported
\* confidence_diff, the margin rounded to 4 decimal places, is below 0.02.
C14_ReportedMarginAgrees_Original ==
    Returned =>
        ((Rec.prediction = "uncertain") <=> (Rec.confidence_diff < ReportedThreshold))

\* C14 (amended): a reported confidence_diff below 0.02 always comes with the
\* "uncertain" verdict, and the "uncertain" verdict always comes with a
\* reported confidence_diff of at most 0.02; the value 0.02 itself is
\* reported with either kind of verdict.
C14_ReportedMarginAgrees ==
    Returned =>
        /\ (Rec.confidence_diff < ReportedThreshold) => (Rec.prediction = "uncertain")
        /\ (Rec.prediction = "uncertain") => (Rec.confidence_diff <= ReportedThreshold)
        /\ Rec.confidence_diff >= 0

\* An "uncertain" record whose margin 0.01996 is reported as 0.02.
C14_Witness ==
    /\ Returned
    /\ Rec.prediction = "uncertain"
    /\ Rec.confidence_diff = ReportedThreshold
    /\ Abs(MedPneu - MedNormal) < Threshold

\* The finished calls of the process, the one just finished included.
FinishedCalls ==
    calls \cup (IF pc \in {"returned", "raised"} THEN {CallRecord} ELSE {})

\* C12: two calls with the same input image, corpus, sample_size and draw
\* give the same record (or raise the same exception) whatever calls ran in
\* between, and no call changes the corpus.
C12_CallsAreIndependent ==
    \A x \in FinishedCalls :
        /\ x.corpus = corpus
        /\ \A y \in FinishedCalls :
              (/\ x.inputOk = y.inputOk
               /\ x.corpus = y.corpus
               /\ x.sample_size = y.sample_size
               /\ x.draw = y.draw)
                  => (x.result = y.result /\ x.raised = y.raised)

\* The third call repeats the first call's input, sample_size and draw after
\* a call that compared a sample, and returns the first call's record.
C12_Witness ==
    /\ ncalls = 3
    /\ pc = "returned"
    /\ Rec.best_match = None
    /\ \E x \in calls : x.result # None /\ x.result[1].best_match # None
    /\ \E x \in calls :
          /\ x.inputOk = inputOk
          /\ x.sample_size = sample_size
          /\ x.draw = drawn
          /\ x.result = result

\* The last n elements of a sequence.
RECURSIVE LastN(_, _)
LastN(xs, n) == IF Len(xs) <= n THEN xs ELSE LastN(Tail(xs), n)

\* C15: the stored conversation_history never holds more than 10 messages; a
\* successful /analyze leaves it empty and current_image_path at the new
\* upload; a chat request that obtains a response leaves the previous history
\* followed by the user message and the response, cut to its last 10
\* messages; a chat request that fails leaves the session as it was.
C15_HistoryBounded ==
    /\ Len(HistoryOf(session)) <= 10
    /\ lastRequest.kind = "analyze_ok" =>
          /\ session["conversation_history"] = <<>>
          /\ session["current_image_path"] = lastRequest.arg
    /\ lastRequest.kind = "chat_ok" =>
          /\ session["conversation_history"]
                = LastN(HistoryOf(lastRequest.before)
                            \o << [role |-> "user", content |-> lastRequest.arg],
                                  [role |-> "assistant", content |-> lastRequest.reply] >>,
                        10)
          /\ session["current_image_path"] = lastRequest.before["current_image_path"]
    /\ lastRequest.kind = "chat_failed" => session = lastRequest.before

\* A chat response arrives when the history already holds 10 messages: the
\* two oldest are dropped.
C15_Witness ==
    /\ lastRequest.kind = "chat_ok"
    /\ Len(HistoryOf(lastRequest.before)) = 10
    /\ Len(session["conversation_history"]) = 10
    /\ session["conversation_history"][9].content = lastRequest.arg
    /\ session["conversation_history"][1] = HistoryOf(lastRequest.before)[3]

====
